---- MODULE Spec2Model ----
(***************************************************************************)
(* A model of the request library's core layer (src/request-core/index.js) *)
(* and of the business modules built on it: the transport registry, the    *)
(* global configuration, the configured-request accessor and the retry,    *)
(* bounded-concurrency and cache decorators.                               *)
(*                                                                         *)
(* JavaScript strings are sequences of one-character strings, so that      *)
(* startsWith, endsWith, slice and concatenation are computed as the code  *)
(* computes them.  `undefined` has one sentinel per type (UndefStr,        *)
(* UndefNum, UndefObj).                                                    *)
(***************************************************************************)
EXTENDS Integers, Sequences, FiniteSets, TLC

VARIABLES
    requestorInstance,  \* request-core: let requestorInstance
    globalConfig,       \* request-core: let globalConfig
    now,                \* Date.now(), in milliseconds
    netlog,             \* what the transport adapters were handed, in order
    maxParallelCount,   \* createParallelRequestor: its argument
    queue,              \* createParallelRequestor: const queue
    runningCount,       \* createParallelRequestor: let runningCount
    preq,               \* the calls made on the parallel requestor
    pmade,              \* how many calls were made on the parallel requestor
    maxCount,           \* createRetryRequestor: its argument
    rcall,              \* the logical call made on the retry requestor
    storageAvailable,   \* whether localStorage can be used
    localStorage,       \* the browser's localStorage
    cinst,              \* the cache requestors created so far
    ccall,              \* the calls made on cache requestors
    cmade               \* how many calls were made on cache requestors

globalVars == <<requestorInstance, globalConfig, now, netlog>>
parVars == <<maxParallelCount, queue, runningCount, preq, pmade>>
retryVars == <<maxCount, rcall>>
cacheVars == <<storageAvailable, localStorage, cinst, ccall, cmade>>
vars == <<globalVars, parVars, retryVars, cacheVars>>

(***************************************************************************)
(* Bounds of the model.                                                    *)
(***************************************************************************)
MaxParCalls == 3
MaxParallel == 2
MaxRetry == 3
MaxCacheCalls == 2
TickMs == 1000
MaxNow == 3000
MaxCacheNow == 2000

(***************************************************************************)
(* JavaScript values.                                                      *)
(***************************************************************************)
UndefStr == <<"#undefined">>
UndefNum == -1
UndefObj == [u \in {"#undefined"} |-> "#undefined"]
NoRequestor == "#none"
EmptyObj == [k \in {} |-> ""]

\* JSON values: numbers and strings; objects are sequences of key/value
\* pairs in insertion order
Num(n) == [t |-> "num", n |-> n, s |-> <<>>]
Str(s) == [t |-> "str", n |-> 0, s |-> s]
UndefJson == << [k |-> <<"#undefined">>, v |-> Num(0)] >>

Adapters == {"fetch", "axios"}

\* the adapter request-bus/config.js exports
OneAdapter == {"fetch"}

\* truthiness of a string: undefined and '' are falsy
TruthyStr(s) == s # UndefStr /\ s # <<>>
\* truthiness of a number: undefined and 0 are falsy
TruthyNum(n) == n # UndefNum /\ n # 0
\* truthiness of an object: only undefined is falsy
TruthyObj(o) == o # UndefObj

endsWithSlash(s) == Len(s) > 0 /\ s[Len(s)] = "/"
startsWithSlash(s) == Len(s) > 0 /\ s[1] = "/"

\* { ...a, ...b }
Spread(a, b) ==
    [k \in (DOMAIN a) \cup (DOMAIN b) |-> IF k \in DOMAIN b THEN b[k] ELSE a[k]]

\* { ...o } of a value that may be undefined
SpreadOf(o) == IF o = UndefObj THEN EmptyObj ELSE o

GET == <<"g", "e", "t">>
POST == <<"p", "o", "s", "t">>

(***************************************************************************)
(* Global configuration and transport registry.                            *)
(***************************************************************************)
InitialGlobalConfig == [baseURL |-> <<>>, headers |-> EmptyObj, timeout |-> 0]

MaxTimeoutSum == 20

setGlobalConfig_AddsTimeout(g, config) ==
    LET merged == Spread(g, config)
    IN  IF "timeout" \in DOMAIN config /\ g.timeout + config.timeout <= MaxTimeoutSum
        THEN [merged EXCEPT !.timeout = g.timeout + config.timeout]
        ELSE merged

\* globalConfig = { ...globalConfig, ...config }
setGlobalConfig(g, config) == Spread(g, config)

BaseH == <<"h">>
BaseHSlash == <<"h", "/">>

GlobalPartials ==
    { [baseURL |-> BaseH],
      [baseURL |-> BaseHSlash],
      [timeout |-> 5],
      [timeout |-> 9] }

ParPartials == { [baseURL |-> BaseH] }

joinURL_KeepsLeadingSlash(g, url) ==
    IF TruthyStr(g.baseURL) /\ TruthyStr(url)
    THEN LET baseURL == IF endsWithSlash(g.baseURL)
                        THEN g.baseURL ELSE g.baseURL \o <<"/">>
         IN  baseURL \o url
    ELSE url

\* the url part of applyGlobalConfig
joinURL(g, url) ==
    IF TruthyStr(g.baseURL) /\ TruthyStr(url)
    THEN LET baseURL == IF endsWithSlash(g.baseURL)
                        THEN g.baseURL ELSE g.baseURL \o <<"/">>
             u == IF startsWithSlash(url) THEN Tail(url) ELSE url
         IN  baseURL \o u
    ELSE url

applyGlobalConfig(g, config) ==
    [config EXCEPT
        !.url = joinURL(g, config.url),
        !.headers = IF TruthyObj(g.headers)
                    THEN Spread(g.headers, SpreadOf(config.headers))
                    ELSE config.headers,
        !.timeout = IF TruthyNum(g.timeout) /\ ~TruthyNum(config.timeout)
                    THEN g.timeout ELSE config.timeout]

\* useRequestor() throws when nothing was injected
useRequestorThrows(r) == r = NoRequestor

\* what the proxied request hands to the adapter
Dispatched(who, config) ==
    [who |-> who, adapter |-> requestorInstance,
     baseURL |-> globalConfig.baseURL,
     config |-> applyGlobalConfig(globalConfig, config)]

MkConfig(method, url) ==
    [method |-> method, url |-> url, headers |-> UndefObj,
     timeout |-> UndefNum, params |-> UndefJson, data |-> UndefJson]

Inject(a) ==
    /\ requestorInstance' = a
    /\ UNCHANGED <<globalConfig, now, netlog, parVars, retryVars, cacheVars>>

SetGlobalConfig(p) ==
    /\ globalConfig' = setGlobalConfig(globalConfig, p)
    /\ globalConfig' # globalConfig
    /\ UNCHANGED <<requestorInstance, now, netlog, parVars, retryVars, cacheVars>>

\* time passes; promise reactions already queued run before the clock moves
Tick(limit) ==
    /\ now + TickMs <= limit
    /\ \A c \in DOMAIN ccall : ccall[c].pc \notin {"has", "get"}
    /\ now' = now + TickMs
    /\ UNCHANGED <<requestorInstance, globalConfig, netlog, parVars, retryVars, cacheVars>>

(***************************************************************************)
(* createParallelRequestor.                                                *)
(***************************************************************************)
Pending == [st |-> "pending", n |-> 0]
Resolved(n) == [st |-> "resolved", n |-> n]
Rejected(n) == [st |-> "rejected", n |-> n]
RejectedConfig == [st |-> "rejected", n |-> 0]

ParIds == 1..MaxParCalls

ParUrl == <<"/", "x">>

NewPReq ==
    [phase |-> "new", config |-> MkConfig(GET, ParUrl), promise |-> Pending,
     disp |-> 0, ok |-> FALSE, waited |-> FALSE]

ParCanAdmit_KeepsOneFree(q, rc, maxP) == ~(Len(q) = 0 \/ rc + 1 >= maxP)

ParCanAdmit_OffByOne(q, rc, maxP) == ~(Len(q) = 0 \/ rc > maxP)

\* the guard of processQueue: it returns early unless this holds
ParCanAdmit(q, rc, maxP) == ~(Len(q) = 0 \/ rc >= maxP)

ParDequeue_Lifo(q) == [item |-> q[Len(q)], rest |-> SubSeq(q, 1, Len(q) - 1)]

\* queue.shift()
ParDequeue(q) == [item |-> Head(q), rest |-> Tail(q)]

\* queue.push(item)
ParEnqueue(q, item) == Append(q, item)

(* processQueue(), called with queue q and running count rc; caller is the  *)
(* call whose Promise executor is running (0 in a finally callback).        *)
processQueue(q, rc, reqs, caller) ==
    IF ~ParCanAdmit(q, rc, maxParallelCount)
    THEN [queue |-> q, runningCount |-> rc, netlog |-> netlog,
          preq |-> IF caller # 0
                   THEN [reqs EXCEPT ![caller].waited = TRUE] ELSE reqs]
    ELSE LET d == ParDequeue(q)
             i == d.item
         IN  IF useRequestorThrows(requestorInstance)
             THEN \* the throw leaves runningCount incremented and the item
                  \* shifted; inside a Promise executor it rejects the caller
                  LET lost == [reqs EXCEPT ![i].phase = "lost"]
                  IN  [queue |-> d.rest, runningCount |-> rc + 1,
                       preq |-> IF caller # 0
                                THEN [lost EXCEPT ![caller].promise =
                                        IF @.st = "pending"
                                        THEN RejectedConfig ELSE @]
                                ELSE lost,
                       netlog |-> netlog]
             ELSE LET e == Dispatched([kind |-> "par", id |-> i],
                                      reqs[i].config)
                  IN  [queue |-> d.rest, runningCount |-> rc + 1,
                       preq |-> [reqs EXCEPT ![i].phase = "inflight",
                                             ![i].config = e.config,
                                             ![i].disp = Len(netlog) + 1],
                       netlog |-> Append(netlog, e)]

ParApply(r) ==
    /\ queue' = r.queue
    /\ runningCount' = r.runningCount
    /\ preq' = r.preq
    /\ netlog' = r.netlog

\* makeRequest(config): push, then processQueue, inside the Promise executor
ParMakeRequest ==
    /\ pmade < MaxParCalls
    /\ LET i == pmade + 1
       IN  /\ pmade' = i
           /\ ParApply(processQueue(ParEnqueue(queue, i), runningCount,
                                    [preq EXCEPT ![i].phase = "queued"], i))
    /\ UNCHANGED <<requestorInstance, globalConfig, now, maxParallelCount,
                   retryVars, cacheVars>>

\* the adapter settles the dispatch of call i
ParTransportSettle(i, ok) ==
    /\ preq[i].phase = "inflight"
    /\ preq' = [preq EXCEPT ![i].phase = "settled", ![i].ok = ok]
    /\ UNCHANGED <<globalVars, maxParallelCount, queue, runningCount, pmade,
                   retryVars, cacheVars>>

\* .then(resolve).catch(reject)
ParThenCatch(i) ==
    /\ preq[i].phase = "settled"
    /\ preq' = [preq EXCEPT ![i].phase = "finally",
                            ![i].promise = IF preq[i].ok
                                           THEN Resolved(preq[i].disp)
                                           ELSE Rejected(preq[i].disp)]
    /\ UNCHANGED <<globalVars, maxParallelCount, queue, runningCount, pmade,
                   retryVars, cacheVars>>

ParFinally_OnlyOnSuccess(i) ==
    /\ preq[i].phase = "finally"
    /\ IF preq[i].ok
       THEN ParApply(processQueue(queue, runningCount - 1,
                                  [preq EXCEPT ![i].phase = "done"], 0))
       ELSE /\ preq' = [preq EXCEPT ![i].phase = "done"]
            /\ UNCHANGED <<queue, runningCount, netlog>>
    /\ UNCHANGED <<requestorInstance, globalConfig, now, maxParallelCount,
                   pmade, retryVars, cacheVars>>

ParFinally_NoRetrigger(i) ==
    /\ preq[i].phase = "finally"
    /\ preq' = [preq EXCEPT ![i].phase = "done"]
    /\ runningCount' = runningCount - 1
    /\ UNCHANGED <<queue, netlog>>
    /\ UNCHANGED <<requestorInstance, globalConfig, now, maxParallelCount,
                   pmade, retryVars, cacheVars>>

\* .finally(() => { runningCount--; processQueue(); })
ParFinally(i) ==
    /\ preq[i].phase = "finally"
    /\ ParApply(processQueue(queue, runningCount - 1,
                             [preq EXCEPT ![i].phase = "done"], 0))
    /\ UNCHANGED <<requestorInstance, globalConfig, now, maxParallelCount,
                   pmade, retryVars, cacheVars>>

(***************************************************************************)
(* createRetryRequestor: one logical call, makeRequest(config).            *)
(***************************************************************************)
RetryBackoffMs == 1000

\* the least maxCount a caller passes to createRetryRequestor
MinRetry == -1

RetryUrls == { <<"/", "x">>, <<"x">> }

RetryDelay_Constant(count) == RetryBackoffMs

\* the delay of the backoff after failed attempt number count
RetryDelay(count) == RetryBackoffMs * count

\* Promise resolved with undefined
ResolvedUndefined == [st |-> "resolved", n |-> UndefNum]

IdleRCall ==
    [pc |-> "idle", config |-> MkConfig(GET, <<>>), origUrl |-> <<>>,
     count |-> 0, timer |-> 0, promise |-> Pending, outcomes |-> <<>>]

RetryLoopCond_AtLeastOnce(count, maxC) == count = 0 \/ count < maxC

\* while (count < maxCount)
RetryLoopCond(count, maxC) == count < maxC

RetryExhausted_OffByOne(count, maxC) == count > maxC

\* if (count >= maxCount) throw error
RetryExhausted(count, maxC) == count >= maxC

RetryOnSuccess_KeepsLooping(rc, n) == [rc EXCEPT !.pc = "backoff", !.timer = now]

\* return await originalRequest.call(req, config), for dispatch number n
RetryOnSuccess(rc, n) == [rc EXCEPT !.pc = "done", !.promise = Resolved(n)]

(* the head of the while loop for call state rc: dispatch an attempt, or     *)
(* fall out of the loop and return undefined                                *)
RetryLoop(rc) ==
    IF RetryLoopCond(rc.count, maxCount)
    THEN LET e == Dispatched([kind |-> "retry", id |-> Len(rc.outcomes) + 1],
                             rc.config)
         IN  /\ netlog' = Append(netlog, e)
             /\ rcall' = [rc EXCEPT !.pc = "inflight", !.config = e.config]
    ELSE /\ netlog' = netlog
         /\ rcall' = [rc EXCEPT !.pc = "done", !.promise = ResolvedUndefined]

RetryMakeRequest(url) ==
    /\ rcall.pc = "idle"
    /\ IF useRequestorThrows(requestorInstance)
       THEN /\ rcall' = [rcall EXCEPT !.pc = "done", !.promise = RejectedConfig,
                                      !.config = MkConfig(GET, url),
                                      !.origUrl = url]
            /\ netlog' = netlog
       ELSE RetryLoop([rcall EXCEPT !.config = MkConfig(GET, url),
                                    !.origUrl = url, !.count = 0])
    /\ UNCHANGED <<requestorInstance, globalConfig, now, maxCount, parVars, cacheVars>>

\* the adapter settles the attempt in flight; try/catch of the loop body
RetryTransportSettle(ok) ==
    /\ rcall.pc = "inflight"
    /\ LET n == Len(netlog)
           rc == [rcall EXCEPT !.outcomes = Append(@, ok)]
       IN  IF ok
           THEN rcall' = RetryOnSuccess(rc, n)
           ELSE LET count == rc.count + 1
                IN  IF RetryExhausted(count, maxCount)
                    THEN rcall' = [rc EXCEPT !.count = count, !.pc = "done",
                                             !.promise = Rejected(n)]
                    ELSE rcall' = [rc EXCEPT !.count = count,
                                             !.pc = "backoff",
                                             !.timer = now + RetryDelay(count)]
    /\ UNCHANGED <<globalVars, maxCount, parVars, cacheVars>>

\* the setTimeout of the backoff fires and the loop goes round
RetryBackoffElapsed ==
    /\ rcall.pc = "backoff"
    /\ now >= rcall.timer
    /\ RetryLoop(rcall)
    /\ UNCHANGED <<requestorInstance, globalConfig, now, maxCount, parVars, cacheVars>>

(***************************************************************************)
(* Strings of the cache keys.                                              *)
(***************************************************************************)
RECURSIVE Digits(_)
\* String(n) of a natural number
Digits(n) ==
    IF n < 10
    THEN << <<"0", "1", "2", "3", "4", "5", "6", "7", "8", "9">>[n + 1] >>
    ELSE Digits(n \div 10) \o Digits(n % 10)

\* JSON.stringify of a number or a string
JsonValue(v) ==
    IF v.t = "num" THEN Digits(v.n) ELSE <<"\"">> \o v.s \o <<"\"">>

RECURSIVE JsonMembers(_)
JsonMembers(o) ==
    IF Len(o) = 0 THEN <<>>
    ELSE <<"\"">> \o o[1].k \o <<"\"", ":">> \o JsonValue(o[1].v)
         \o (IF Len(o) > 1 THEN <<",">> ELSE <<>>) \o JsonMembers(Tail(o))

Undefined == <<"u", "n", "d", "e", "f", "i", "n", "e", "d">>

\* JSON.stringify(o), as a template literal prints it
JsonStringify(o) ==
    IF o = UndefJson THEN Undefined ELSE <<"{">> \o JsonMembers(o) \o <<"}">>

\* `${s}` of a string that may be undefined
Template(s) == IF s = UndefStr THEN Undefined ELSE s

\* the default key of createCacheRequestor
defaultKey(config) == Template(config.method) \o <<"-">> \o Template(config.url)

\* the key function of the README and of getArticles
paramsKey(config) ==
    Template(config.method) \o <<"-">> \o Template(config.url) \o <<"-">>
        \o JsonStringify(config.params)

\* the default key of createIdempotentRequest: keyParts.join('-')
idempotentKey(config) ==
    Template(config.method) \o <<"-">> \o Template(config.url)
        \o (IF config.params # UndefJson
            THEN <<"-">> \o JsonStringify(config.params) ELSE <<>>)
        \o (IF config.data # UndefJson
            THEN <<"-">> \o JsonStringify(config.data) ELSE <<>>)

\* normalizedOptions.key(config)
KeyOf(kind, config) ==
    CASE kind = "default" -> defaultKey(config)
      [] kind = "params" -> paramsKey(config)
      [] kind = "idempotent" -> idempotentKey(config)

(***************************************************************************)
(* createCacheRequestor.                                                   *)
(***************************************************************************)
DefaultDuration == 300000
IdempotentDuration == 3600000

\* the options argument: absent fields are "undef" / UndefNum / FALSE
Options(key, duration, isValid, persist) ==
    [key |-> key, duration |-> duration, isValid |-> isValid,
     persist |-> persist]

\* const normalizedOptions = { ... }
normalizeOptions(options) ==
    [key |-> IF options.key = "undef" THEN "default" ELSE options.key,
     duration |-> IF TruthyNum(options.duration)
                  THEN options.duration ELSE DefaultDuration,
     isValid |-> IF options.isValid = "undef" THEN "null" ELSE options.isValid,
     persist |-> options.persist]

\* useCacheStore(isPersist)
useCacheStore(isPersist) ==
    IF ~isPersist THEN "memory"
    ELSE IF storageAvailable THEN "storage" ELSE "memory"

EmptyStore == [k \in {} |-> 0]

NewInstance(options) ==
    LET n == normalizeOptions(options)
    IN  [options |-> n, kind |-> useCacheStore(n.persist), store |-> EmptyStore]

\* JSON.parse(JSON.stringify(entry)): the copy is not the response object
JsonRoundTrip(entry) == [entry EXCEPT !.data.json = TRUE]

Response(n) == [n |-> n, json |-> FALSE]
NoData == [n |-> 0, json |-> FALSE]
NoEntry == [data |-> NoData, timestamp |-> -1]

\* the map the instance's store reads and writes
StoreMap(insts, ls, i) ==
    IF insts[i].kind = "storage" THEN ls ELSE insts[i].store

\* store.has(key)
storeHas(insts, ls, i, key) == key \in DOMAIN StoreMap(insts, ls, i)

\* store.get(key)
storeGet(insts, ls, i, key) == StoreMap(insts, ls, i)[key]

storeSet_KeepsFirst(m, key, value) ==
    [k \in (DOMAIN m) \cup {key} |-> IF k \in DOMAIN m THEN m[k] ELSE value]

\* the map after store.set(key, value)
storeSet(m, key, value) ==
    [k \in (DOMAIN m) \cup {key} |-> IF k = key THEN value ELSE m[k]]

\* options.isValid(key, config, cache), for the predicates of the model
userIsValid(pred, entry) == pred = "always"

cacheValid_Inclusive(options, entry, t) ==
    IF options.isValid # "null"
    THEN userIsValid(options.isValid, entry)
    ELSE (t - entry.timestamp) <= options.duration

\* the validity check of makeRequest at time t
cacheValid(options, entry, t) ==
    IF options.isValid # "null"
    THEN userIsValid(options.isValid, entry)
    ELSE (t - entry.timestamp) < options.duration

NewCCall ==
    [pc |-> "new", via |-> "request", inst |-> 0,
     config |-> MkConfig(GET, <<>>), key |-> <<>>, hasKey |-> FALSE,
     cache |-> NoEntry, at |-> 0, promise |-> Pending, data |-> NoData,
     disp |-> 0, after |-> {}]

CacheIds == 1..MaxCacheCalls

CacheInstIds == 1..MaxCacheCalls

CacheDone == {c \in CacheIds : ccall[c].pc = "done"}

\* makeRequest(config) up to its first await: the key and store.has(key)
CacheStart(c, via, i, insts, config) ==
    LET key == KeyOf(insts[i].options.key, config)
    IN  [NewCCall EXCEPT !.pc = "has", !.via = via, !.inst = i,
                         !.config = config, !.key = key,
                         !.hasKey = storeHas(insts, localStorage, i, key),
                         !.at = now]

\* req.get(url) on instance i
CacheMakeRequest(i, url) ==
    /\ cmade < MaxCacheCalls
    /\ i \in 1..Len(cinst)
    /\ cmade' = cmade + 1
    /\ ccall' = [ccall EXCEPT ![cmade + 1] =
                    CacheStart(cmade + 1, "request", i, cinst,
                               MkConfig(GET, url))]
    /\ UNCHANGED <<globalVars, parVars, retryVars, storageAvailable,
                   localStorage, cinst>>

\* lines 336-338: useRequestor() and the dispatch of call c
CacheDispatch(c, call) ==
    IF useRequestorThrows(requestorInstance)
    THEN /\ ccall' = [ccall EXCEPT ![c] =
                        [call EXCEPT !.pc = "done", !.promise = RejectedConfig]]
         /\ netlog' = netlog
    ELSE LET e == Dispatched([kind |-> "cache", id |-> c], call.config)
         IN  /\ netlog' = Append(netlog, e)
             /\ ccall' = [ccall EXCEPT ![c] =
                            [call EXCEPT !.pc = "inflight",
                                         !.config = e.config,
                                         !.disp = Len(netlog) + 1]]

\* after `await store.has(key)`: store.get(key), or the dispatch
CacheAfterHas(c) ==
    /\ ccall[c].pc = "has"
    /\ IF ccall[c].hasKey
       THEN /\ ccall' = [ccall EXCEPT
                   ![c].pc = "get",
                   ![c].cache = storeGet(cinst, localStorage, ccall[c].inst,
                                         ccall[c].key)]
            /\ netlog' = netlog
       ELSE CacheDispatch(c, ccall[c])
    /\ UNCHANGED <<requestorInstance, globalConfig, now, parVars, retryVars,
                   storageAvailable, localStorage, cinst, cmade>>

CacheReturnsCached_Always(valid) == TRUE

\* if (isValid) return cache.data
CacheReturnsCached(valid) == valid

\* after `await store.get(key)`: the validity check
CacheAfterGet(c) ==
    /\ ccall[c].pc = "get"
    /\ LET call == [ccall[c] EXCEPT !.at = now]
           valid == cacheValid(cinst[call.inst].options, call.cache, now)
       IN  IF CacheReturnsCached(valid)
           THEN /\ ccall' = [ccall EXCEPT ![c] =
                       [call EXCEPT !.pc = "done",
                                    !.promise = Resolved(call.cache.data.n),
                                    !.data = call.cache.data]]
                /\ netlog' = netlog
           ELSE CacheDispatch(c, call)
    /\ UNCHANGED <<requestorInstance, globalConfig, now, parVars, retryVars,
                   storageAvailable, localStorage, cinst, cmade>>

\* the entry makeRequest stores for a result
NewEntry(result, t) == [data |-> result, timestamp |-> t]

CacheStoresResult_Always(ok) == TRUE

\* store.set is reached only when the awaited dispatch did not throw
CacheStoresResult(ok) == ok

\* the adapter settles the dispatch of call c; lines 338-345
CacheTransportSettle(c, ok) ==
    /\ ccall[c].pc = "inflight"
    /\ LET i == ccall[c].inst
           result == Response(ccall[c].disp)
           entry == NewEntry(result, now)
       IN  /\ ccall' = IF ok
                       THEN [ccall EXCEPT ![c].pc = "done",
                                          ![c].promise = Resolved(result.n),
                                          ![c].data = result]
                       ELSE [ccall EXCEPT ![c].pc = "done",
                                          ![c].promise = Rejected(ccall[c].disp)]
           /\ IF CacheStoresResult(ok)
              THEN IF cinst[i].kind = "storage"
                   THEN /\ localStorage' = storeSet(localStorage, ccall[c].key,
                                                    JsonRoundTrip(entry))
                        /\ cinst' = cinst
                   ELSE /\ cinst' = [cinst EXCEPT ![i].store =
                                        storeSet(@, ccall[c].key, entry)]
                        /\ localStorage' = localStorage
              ELSE UNCHANGED <<cinst, localStorage>>
    /\ UNCHANGED <<globalVars, parVars, retryVars, storageAvailable, cmade>>

CacheUrls == { <<"/", "a">>, <<"/", "b">> }

CacheOptionInputs ==
    { Options("undef", 1000, "undef", FALSE),
      Options("undef", UndefNum, "undef", FALSE),
      Options("undef", 2000, "always", FALSE),
      Options("undef", 2000, "never", FALSE),
      Options("undef", 2000, "undef", TRUE) }

(***************************************************************************)
(* The business modules (request-bus/modules/article) and initRequest.     *)
(***************************************************************************)
ApiArticles ==
    <<"/", "a", "p", "i", "/", "a", "r", "t", "i", "c", "l", "e", "s">>

GetArticlesDuration == 1800000

\* { page, size }
PageParams(page, size) ==
    << [k |-> <<"p", "a", "g", "e">>, v |-> Num(page)],
       [k |-> <<"s", "i", "z", "e">>, v |-> Num(size)] >>

\* { title }
Article(title) == << [k |-> <<"t", "i", "t", "l", "e">>, v |-> Str(title)] >>

BusPages == {1, 2}
BusSizes == {10}
BusArticles == { Article(<<"a">>), Article(<<"b">>) }

\* createIdempotentRequest(), without a key function
IdempotentOptions == Options("idempotent", IdempotentDuration, "undef", FALSE)

\* the options getArticles passes to createCacheRequestor
GetArticlesOptions == Options("params", GetArticlesDuration, "undef", FALSE)

(* a business method creates its requestor with the given options and      *)
(* makes one call on it: the requestors and the calls after that           *)
BusCall(via, options, config) ==
    LET insts == Append(cinst, NewInstance(options))
        call == CacheStart(cmade + 1, via, Len(insts), insts, config)
    IN  [cinst |-> insts,
         ccall |-> [ccall EXCEPT ![cmade + 1] =
                        [call EXCEPT !.after = CacheDone]]]

\* article.getArticles(page, size)
BusGetArticles(page, size) ==
    /\ cmade < MaxCacheCalls
    /\ LET r == BusCall("getArticles", GetArticlesOptions,
                        [MkConfig(GET, ApiArticles) EXCEPT
                            !.params = PageParams(page, size)])
       IN  cinst' = r.cinst /\ ccall' = r.ccall
    /\ cmade' = cmade + 1
    /\ UNCHANGED <<globalVars, parVars, retryVars, storageAvailable,
                   localStorage>>

\* article.publishArticle(article)
BusPublishArticle(article) ==
    /\ cmade < MaxCacheCalls
    /\ LET r == BusCall("publishArticle", IdempotentOptions,
                        [MkConfig(POST, ApiArticles) EXCEPT !.data = article])
       IN  cinst' = r.cinst /\ ccall' = r.ccall
    /\ cmade' = cmade + 1
    /\ UNCHANGED <<globalVars, parVars, retryVars, storageAvailable,
                   localStorage>>

InitRequestInputs ==
    { [baseURL |-> BaseH, headers |-> UndefObj, timeout |-> UndefNum],
      [baseURL |-> UndefStr, headers |-> [Authorization |-> "t1"],
       timeout |-> UndefNum] }

(* initRequest(config): { baseURL, headers, timeout } of config, undefined   *)
(* where config has no such field, goes to setGlobalConfig; the value        *)
(* injected is the property `requestor` of the fetch requestor object, which *)
(* has no such property                                                     *)
InitRequest(config) ==
    /\ globalConfig' = setGlobalConfig(globalConfig, config)
    /\ requestorInstance' = NoRequestor
    /\ UNCHANGED <<now, netlog, parVars, retryVars, cacheVars>>

InitGlobals ==
    /\ requestorInstance \in {NoRequestor} \cup Adapters
    /\ globalConfig = InitialGlobalConfig
    /\ now = 0
    /\ netlog = <<>>

InitPar ==
    /\ maxParallelCount \in 0..MaxParallel
    /\ queue = <<>>
    /\ runningCount = 0
    /\ preq = [i \in ParIds |-> NewPReq]
    /\ pmade = 0

InitRetry ==
    /\ maxCount \in MinRetry..MaxRetry
    /\ rcall = IdleRCall

\* a program that uses one parallel requestor
NoPar ==
    /\ maxParallelCount = 0
    /\ queue = <<>>
    /\ runningCount = 0
    /\ preq = [i \in ParIds |-> NewPReq]
    /\ pmade = 0

NoRetry ==
    /\ maxCount = 0
    /\ rcall = IdleRCall

\* one cache requestor was created
InitCache ==
    /\ storageAvailable \in BOOLEAN
    /\ localStorage = EmptyStore
    /\ cinst \in { <<NewInstance(o)>> : o \in CacheOptionInputs }
    /\ storageAvailable \/ cinst[1].options.persist
    /\ ccall = [c \in CacheIds |-> NewCCall]
    /\ cmade = 0

NoCache ==
    /\ storageAvailable = FALSE
    /\ localStorage = EmptyStore
    /\ cinst = <<>>
    /\ ccall = [c \in CacheIds |-> NewCCall]
    /\ cmade = 0

InitParSpec ==
    /\ requestorInstance \in {NoRequestor} \cup OneAdapter
    /\ globalConfig = InitialGlobalConfig
    /\ now = 0
    /\ netlog = <<>>
    /\ InitPar /\ NoRetry /\ NoCache

NextPar ==
    \/ \E a \in OneAdapter : Inject(a)
    \/ \E p \in ParPartials : SetGlobalConfig(p)
    \/ ParMakeRequest
    \/ \E i \in ParIds, ok \in BOOLEAN : ParTransportSettle(i, ok)
    \/ \E i \in ParIds : ParThenCatch(i)
    \/ \E i \in ParIds : ParFinally(i)

SpecPar == InitParSpec /\ [][NextPar]_vars

\* a program that makes one logical call on a retry requestor
InitRetrySpec == InitGlobals /\ NoPar /\ InitRetry /\ NoCache

NextRetry ==
    \/ \E a \in Adapters : Inject(a)
    \/ \E p \in GlobalPartials : SetGlobalConfig(p)
    \/ Tick(MaxNow)
    \/ \E u \in RetryUrls : RetryMakeRequest(u)
    \/ \E ok \in BOOLEAN : RetryTransportSettle(ok)
    \/ RetryBackoffElapsed

SpecRetry == InitRetrySpec /\ [][NextRetry]_vars

\* a program that creates cache requestors and makes calls on them
InitCacheSpec ==
    /\ requestorInstance \in {NoRequestor} \cup OneAdapter
    /\ globalConfig \in {InitialGlobalConfig,
                          setGlobalConfig(InitialGlobalConfig, [baseURL |-> BaseH])}
    /\ now = 0
    /\ netlog = <<>>
    /\ NoPar /\ NoRetry /\ InitCache

NextCache ==
    \/ \E a \in OneAdapter : Inject(a)
    \/ Tick(MaxCacheNow)
    \/ \E i \in CacheInstIds, u \in CacheUrls : CacheMakeRequest(i, u)
    \/ \E c \in CacheIds : CacheAfterHas(c)
    \/ \E c \in CacheIds : CacheAfterGet(c)
    \/ \E c \in CacheIds, ok \in BOOLEAN : CacheTransportSettle(c, ok)

SpecCache == InitCacheSpec /\ [][NextCache]_vars

\* a program that imported request-bus/index.js, which injects the requestor
\* of request-bus/config.js, and calls the business methods
InitBusSpec ==
    /\ requestorInstance = "fetch"
    /\ globalConfig = InitialGlobalConfig
    /\ now = 0
    /\ netlog = <<>>
    /\ NoPar /\ NoRetry /\ NoCache

NextBus ==
    \/ \E g \in InitRequestInputs : InitRequest(g)
    \/ \E a \in OneAdapter : Inject(a)
    \/ Tick(MaxCacheNow)
    \/ \E page \in BusPages, size \in BusSizes : BusGetArticles(page, size)
    \/ \E article \in BusArticles : BusPublishArticle(article)
    \/ \E c \in CacheIds : CacheAfterHas(c)
    \/ \E c \in CacheIds, ok \in BOOLEAN : CacheTransportSettle(c, ok)

SpecBus == InitBusSpec /\ [][NextBus]_vars

(***************************************************************************)
(* Properties of createParallelRequestor.                                  *)
(***************************************************************************)
ParInFlight == {i \in ParIds : preq[i].phase = "inflight"}

\* C1: the number of requests dispatched to the transport and not yet
\* settled by it never exceeds maxParallelCount
C1_BoundedInFlight == Cardinality(ParInFlight) <= maxParallelCount

C1_Witness ==
    /\ maxParallelCount = 2
    /\ Cardinality(ParInFlight) = 2
    /\ Len(queue) > 0

\* C2: requests are handed to the transport in the order of the calls
\* (call i is the i-th call made on the instance)
C2_FifoDispatch ==
    \A m, n \in 1..Len(netlog) :
        m < n => netlog[m].who.id < netlog[n].who.id

C2_Witness ==
    /\ maxParallelCount = 2
    /\ Len(netlog) = 3
    /\ preq[2].phase = "done"
    /\ preq[1].phase = "inflight"
    /\ preq[3].waited

\* the adapter settles every dispatch, and promise reactions run
ParFairness ==
    \A i \in ParIds :
        /\ WF_vars(\E ok \in BOOLEAN : ParTransportSettle(i, ok))
        /\ WF_vars(ParThenCatch(i))
        /\ WF_vars(ParFinally(i))

InitParLive ==
    /\ InitParSpec
    /\ requestorInstance # NoRequestor
    /\ maxParallelCount >= 1

\* the environment of the liveness claim: a transport was injected and the
\* configuration set before the calls are made
NextParLive ==
    \/ ParMakeRequest
    \/ \E i \in ParIds, ok \in BOOLEAN : ParTransportSettle(i, ok)
    \/ \E i \in ParIds : ParThenCatch(i)
    \/ \E i \in ParIds : ParFinally(i)

LiveSpecPar == InitParLive /\ [][NextParLive]_vars /\ ParFairness

\* C3: with maxParallelCount >= 1, a transport injected and every dispatch
\* eventually settled, every call made is eventually dispatched and its
\* promise eventually settled
C3_EventuallySettled ==
    \A i \in ParIds :
        (preq[i].phase # "new") ~>
            (preq[i].disp # 0 /\ preq[i].promise.st # "pending")

C3_Witness ==
    /\ requestorInstance # NoRequestor
    /\ maxParallelCount = 1
    /\ preq[3].waited
    /\ preq[3].disp = 3
    /\ preq[3].promise.st # "pending"

\* C4: a request whose dispatch fails rejects its own promise, and only its
\* own, with the error of that dispatch; its finally callback frees the slot
\* and hands the head of the queue, if any, to the transport
C4_FailureFreesSlot ==
    [][\A i \in ParIds :
        /\ (preq[i].phase = "settled" /\ ~preq[i].ok /\ preq'[i].phase = "finally")
            => /\ preq'[i].promise = Rejected(preq[i].disp)
               /\ \A j \in ParIds \ {i} : preq'[j].promise = preq[j].promise
        /\ (preq[i].phase = "finally" /\ ~preq[i].ok /\ preq'[i].phase = "done")
            => IF queue # <<>>
               THEN /\ preq'[Head(queue)].phase = "inflight"
                    /\ queue' = Tail(queue)
                    /\ runningCount' = runningCount
               ELSE runningCount' = runningCount - 1]_vars

C4_Witness ==
    \E i, j \in ParIds :
        /\ i < j
        /\ preq[i].phase = "done" /\ ~preq[i].ok
        /\ preq[i].promise = Rejected(preq[i].disp)
        /\ preq[j].waited
        /\ preq[j].promise.st = "resolved"

(***************************************************************************)
(* Properties of createRetryRequestor.                                     *)
(***************************************************************************)
RetryAllFailed == \A k \in 1..Len(rcall.outcomes) : ~rcall.outcomes[k]

\* C5: with maxCount >= 1 and a transport that fails every attempt, the call
\* dispatches exactly maxCount times and then rejects with the error of the
\* last attempt
C5_RetryExhaustion ==
    (maxCount >= 1 /\ rcall.pc # "idle" /\ rcall.promise # RejectedConfig
        /\ RetryAllFailed)
    => /\ Len(netlog) <= maxCount
       /\ (Len(rcall.outcomes) = maxCount
            => rcall.pc = "done" /\ rcall.promise = Rejected(maxCount))
       /\ (rcall.pc = "done"
            => Len(netlog) = maxCount /\ rcall.promise = Rejected(Len(netlog)))

C5_Witness ==
    /\ maxCount = 3
    /\ rcall.pc = "done"
    /\ RetryAllFailed
    /\ Len(netlog) = 3
    /\ rcall.promise = Rejected(3)

\* C6: with maxCount >= 1, when the first k attempts fail and attempt k+1
\* succeeds, the call resolves with that attempt's value after exactly k+1
\* dispatches, and nothing is dispatched after the success
C6_RetrySuccess ==
    (maxCount >= 1 /\ \E j \in 1..Len(rcall.outcomes) : rcall.outcomes[j])
    => LET k == Len(rcall.outcomes) - 1
       IN  /\ \A j \in 1..k : ~rcall.outcomes[j]
           /\ rcall.outcomes[k + 1]
           /\ k < maxCount
           /\ rcall.pc = "done"
           /\ rcall.promise = Resolved(k + 1)
           /\ Len(netlog) = k + 1

C6_Witness ==
    /\ maxCount = 3
    /\ rcall.outcomes = <<FALSE, FALSE, TRUE>>
    /\ rcall.promise = Resolved(3)
    /\ Len(netlog) = 3

\* C7: with a non-empty baseURL, every attempt of one logical call hands the
\* transport baseURL joined exactly once with the caller's url
C7_UrlJoinedOncePerAttempt ==
    \A n \in 1..Len(netlog) :
        (netlog[n].who.kind = "retry" /\ TruthyStr(netlog[n].baseURL))
        => netlog[n].config.url =
              joinURL([baseURL |-> netlog[n].baseURL], rcall.origUrl)

(***************************************************************************)
(* Properties of createCacheRequestor.                                     *)
(***************************************************************************)
CacheOptions(c) == cinst[ccall[c].inst].options

\* call c was answered from the store
CacheHit(c) ==
    /\ ccall[c].pc = "done"
    /\ ccall[c].disp = 0
    /\ ccall[c].promise.st = "resolved"

\* C8: with the default validity check, a call that finds no entry for its
\* key dispatches and on success stores the result with the current time; a
\* call that finds an entry younger than duration returns its data without a
\* dispatch; a call that finds an entry of age duration or more dispatches
\* again and on success overwrites the entry
C8_CacheLifecycle ==
    [][/\ \A c \in CacheIds :
            (ccall'[c].pc \in {"inflight", "done"}
                /\ cinst'[ccall'[c].inst].options.isValid = "null")
            => LET call == ccall'[c]
                   dur == cinst'[call.inst].options.duration
               IN  /\ ~call.hasKey => (call.disp # 0 \/ call.promise = RejectedConfig)
                   /\ (call.hasKey /\ call.at - call.cache.timestamp < dur)
                        => /\ call.disp = 0
                           /\ call.pc = "done"
                           /\ call.promise = Resolved(call.cache.data.n)
                           /\ call.data = call.cache.data
                   /\ (call.hasKey /\ call.at - call.cache.timestamp >= dur)
                        => (call.disp # 0 \/ call.promise = RejectedConfig)
       /\ \A c \in CacheIds :
            (ccall[c].pc = "inflight" /\ ccall'[c].promise.st = "resolved")
            => LET m == StoreMap(cinst', localStorage', ccall[c].inst)
               IN  /\ ccall[c].key \in DOMAIN m
                   /\ m[ccall[c].key].data.n = ccall[c].disp
                   /\ m[ccall[c].key].timestamp = now
                   /\ ccall'[c].data = Response(ccall[c].disp)]_vars

C8_Witness ==
    \E c, d \in CacheIds :
        /\ ccall[c].pc = "done" /\ ccall[d].pc = "done"
        /\ CacheOptions(c).isValid = "null"
        /\ ccall[c].inst = ccall[d].inst /\ ccall[c].key = ccall[d].key
        /\ ccall[c].promise = Resolved(ccall[c].disp) /\ ccall[c].disp = 1
        /\ ccall[d].hasKey
        /\ ccall[d].cache = NewEntry(Response(1), 0)
        /\ ccall[d].at - ccall[d].cache.timestamp = CacheOptions(d).duration
        /\ ccall[d].promise = Resolved(ccall[d].disp) /\ ccall[d].disp = 2
        /\ cinst[ccall[d].inst].store[ccall[d].key] = NewEntry(Response(2), ccall[d].at)

\* C9: a call is answered from the store only if the entry it read passed,
\* at that lookup, options.isValid when one was supplied and the age test
\* otherwise, and the answer is that entry's data
C9_HitOnlyIfValid ==
    \A c \in CacheIds :
        CacheHit(c)
        => /\ ccall[c].hasKey
           /\ ccall[c].data = ccall[c].cache.data
           /\ IF CacheOptions(c).isValid # "null"
              THEN CacheOptions(c).isValid = "always"
              ELSE ccall[c].at - ccall[c].cache.timestamp < CacheOptions(c).duration

C9_Witness ==
    \E c \in CacheIds :
        /\ CacheHit(c)
        /\ CacheOptions(c).isValid = "null"
        /\ ccall[c].cache.timestamp < ccall[c].at
        /\ ccall[c].data.n = 1

(***************************************************************************)
(* Properties of the business modules.                                     *)
(***************************************************************************)
\* C10: of two successive calls of getArticles, or of publishArticle, with
\* the same arguments, the second is answered with the first's result and
\* without a dispatch
C10_BusSecondCallReuses ==
    \A c, d \in CacheIds :
        (/\ ccall[c].via \in {"getArticles", "publishArticle"}
         /\ ccall[d].via = ccall[c].via
         /\ ccall[d].key = ccall[c].key
         /\ c \in ccall[d].after
         /\ ccall[c].promise.st = "resolved"
         /\ ccall[d].pc \in {"inflight", "done"})
        => /\ ccall[d].disp = 0
           /\ ccall[d].data = ccall[c].data

(***************************************************************************)
(* createIdempotentRequest without a key function.                         *)
(***************************************************************************)
PayUrl == <<"/", "p">>

\* { a: 1 }
PayObj == << [k |-> <<"a">>, v |-> Num(1)] >>

\* '/p-{"a":1}': a url that ends as a serialized object does
PayUrlWithObj == PayUrl \o <<"-">> \o JsonStringify(PayObj)

\* the configs of req.request({ method: 'post', url, params, data })
IdemConfigs ==
    { [MkConfig(POST, u) EXCEPT !.params = p, !.data = b] :
        u \in {PayUrl, PayUrlWithObj},
        p \in {UndefJson, PayObj},
        b \in {UndefJson, PayObj} }

\* req.request(config) on the requestor of createIdempotentRequest()
IdemRequest(config) ==
    /\ cmade < MaxCacheCalls
    /\ cmade' = cmade + 1
    /\ ccall' = [ccall EXCEPT ![cmade + 1] =
                    [CacheStart(cmade + 1, "idempotent", 1, cinst, config)
                        EXCEPT !.after = CacheDone]]
    /\ UNCHANGED <<globalVars, parVars, retryVars, storageAvailable,
                   localStorage, cinst>>

\* a program that creates one idempotent requestor and makes calls on it
InitIdemSpec ==
    /\ requestorInstance = "fetch"
    /\ globalConfig = InitialGlobalConfig
    /\ now = 0
    /\ netlog = <<>>
    /\ NoPar /\ NoRetry
    /\ storageAvailable = TRUE
    /\ localStorage = EmptyStore
    /\ cinst = <<NewInstance(IdempotentOptions)>>
    /\ ccall = [c \in CacheIds |-> NewCCall]
    /\ cmade = 0

NextIdem ==
    \/ \E config \in IdemConfigs : IdemRequest(config)
    \/ \E c \in CacheIds : CacheAfterHas(c)
    \/ \E c \in CacheIds : CacheAfterGet(c)
    \/ \E c \in CacheIds, ok \in BOOLEAN : CacheTransportSettle(c, ok)

SpecIdem == InitIdemSpec /\ [][NextIdem]_vars

\* the four fields the default idempotency key is made of
SameRequest(a, b) ==
    /\ a.method = b.method
    /\ a.url = b.url
    /\ a.params = b.params
    /\ a.data = b.data

\* C11: two calls on an idempotent requestor have the same default key if
\* and only if they have the same method, url, params and body, and a call
\* that differs in one of the four from every earlier call is dispatched
C11_KeyInjective ==
    \A c, d \in CacheIds :
        (ccall[c].pc # "new" /\ ccall[d].pc # "new")
        => /\ (ccall[c].key = ccall[d].key)
                <=> SameRequest(ccall[c].config, ccall[d].config)
           /\ (/\ ccall[d].pc = "done"
               /\ ccall[d].promise.st = "resolved"
               /\ \A e \in ccall[d].after :
                    ~SameRequest(ccall[e].config, ccall[d].config))
              => ccall[d].disp # 0

(***************************************************************************)
(* Properties of initRequest and of the transport registry.                *)
(***************************************************************************)
\* C12: when initRequest(config) returns, the transport registry holds an
\* adapter, so that a dispatch after it does not fail for want of one
C12_InitRequestInjects ==
    [][(\E g \in InitRequestInputs : InitRequest(g))
          => ~useRequestorThrows(requestorInstance')]_vars

(***************************************************************************)
(* The configured-request accessor: useRequestor().request(config).        *)
(***************************************************************************)
MaxAccessorCalls == 1

ConfigPartials ==
    { [baseURL |-> BaseH],
      [baseURL |-> BaseHSlash],
      [headers |-> [Authorization |-> "t1"]],
      [headers |-> [Accept |-> "json"]],
      [timeout |-> 5] }

UrlX == <<"x">>
UrlSlashX == <<"/", "x">>
\* a url that starts with either base URL of the model
UrlHX == <<"h", "/", "x">>

\* the configs callers pass to request()
AccessorConfigs ==
    { MkConfig(GET, UrlX),
      MkConfig(GET, UrlSlashX),
      MkConfig(GET, UrlHX),
      [MkConfig(GET, UrlX) EXCEPT !.headers = [Authorization |-> "t2"]],
      [MkConfig(GET, UrlX) EXCEPT !.timeout = 0],
      [MkConfig(GET, UrlX) EXCEPT !.timeout = 7] }

\* useRequestor().request(config); when useRequestor() throws, nothing
\* was changed
AccessorRequest(config) ==
    /\ Len(netlog) < MaxAccessorCalls
    /\ ~useRequestorThrows(requestorInstance)
    /\ netlog' = Append(netlog,
                    Dispatched([kind |-> "accessor", config |-> config], config))
    /\ UNCHANGED <<requestorInstance, globalConfig, now, parVars, retryVars,
                   cacheVars>>

\* a program that has injected nothing yet
InitAccessorSpec ==
    /\ requestorInstance = NoRequestor
    /\ globalConfig = InitialGlobalConfig
    /\ now = 0
    /\ netlog = <<>>
    /\ NoPar /\ NoRetry /\ NoCache

NextAccessor ==
    \/ \E a \in OneAdapter : Inject(a)
    \/ \E p \in ConfigPartials : SetGlobalConfig(p)
    \/ \E config \in AccessorConfigs : AccessorRequest(config)

SpecAccessor == InitAccessorSpec /\ [][NextAccessor]_vars

(***************************************************************************)
(* Properties of setGlobalConfig.                                          *)
(***************************************************************************)
\* C13: setGlobalConfig(partial) leaves the top-level fields that partial
\* does not have as they were, and merges headers key by key: a key of
\* partial.headers gets partial's value, every other stored key stays
C13_HeadersMerged ==
    [][\A p \in ConfigPartials :
          SetGlobalConfig(p)
          => /\ \A f \in (DOMAIN globalConfig) \ (DOMAIN p) :
                    globalConfig'[f] = globalConfig[f]
             /\ "headers" \in DOMAIN p
                => \A k \in (DOMAIN globalConfig.headers) \cup (DOMAIN p.headers) :
                      /\ k \in DOMAIN globalConfig'.headers
                      /\ globalConfig'.headers[k] =
                            IF k \in DOMAIN p.headers
                            THEN p.headers[k] ELSE globalConfig.headers[k]]_vars

\* C14: setGlobalConfig is idempotent: once setGlobalConfig(x) was applied,
\* applying the same x again leaves the stored configuration as it is
C14_SetGlobalConfigIdempotent ==
    [][\A p \in ConfigPartials :
          SetGlobalConfig(p) => setGlobalConfig(globalConfig', p) = globalConfig']_vars

C14_Witness ==
    /\ globalConfig.baseURL = BaseHSlash
    /\ globalConfig.headers = [Accept |-> "json"]
    /\ globalConfig.timeout = 5

(***************************************************************************)
(* Properties of applyGlobalConfig, as the accessor's dispatches show it.  *)
(***************************************************************************)
\* s.startsWith(p)
startsWith(s, p) == Len(p) <= Len(s) /\ SubSeq(s, 1, Len(p)) = p

\* the accessor dispatches in this step: what it was given and what it
\* handed to the adapter
AccessorDispatches == Len(netlog') = Len(netlog) + 1

LastIn == netlog'[Len(netlog')].who.config

LastOut == netlog'[Len(netlog')].config

\* C17: a base URL with or without a trailing slash and a url with or
\* without a leading slash are joined with exactly one '/' between them
C17_JoinedWithOneSlash ==
    [][(/\ AccessorDispatches
        /\ globalConfig.baseURL \in {BaseH, BaseHSlash}
        /\ LastIn.url \in {UrlX, UrlSlashX})
       => LastOut.url = <<"h", "/", "x">>]_vars

C17_Witness ==
    /\ Len(netlog) > 0
    /\ netlog[1].baseURL = BaseHSlash
    /\ netlog[1].who.config.url = UrlSlashX
    /\ netlog[1].config.url = <<"h", "/", "x">>

\* C18: a url that already starts with the global base URL is dispatched
\* as it is
C18_PrefixedUrlUnchanged ==
    [][(/\ AccessorDispatches
        /\ TruthyStr(globalConfig.baseURL)
        /\ startsWith(LastIn.url, globalConfig.baseURL))
       => LastOut.url = LastIn.url]_vars

\* C19: each header of a dispatch has the per-call value when the call
\* gave one and the global value otherwise; the timeout is the per-call
\* one whenever the call gave one, 0 included, and the global one otherwise
C19_PerCallWins ==
    [][AccessorDispatches
       => /\ \A k \in (DOMAIN globalConfig.headers)
                        \cup (DOMAIN SpreadOf(LastIn.headers)) :
                /\ k \in DOMAIN LastOut.headers
                /\ LastOut.headers[k] =
                      IF k \in DOMAIN SpreadOf(LastIn.headers)
                      THEN LastIn.headers[k] ELSE globalConfig.headers[k]
          /\ LastIn.timeout # UndefNum => LastOut.timeout = LastIn.timeout
          /\ LastIn.timeout = UndefNum
                => LastOut.timeout \in {globalConfig.timeout, UndefNum}]_vars

(***************************************************************************)
(* Properties of the late binding of the adapter and the configuration.    *)
(***************************************************************************)
\* C15: every dispatch of a retry requestor goes to the adapter that is
\* injected when it is issued and carries the headers and the timeout that
\* the global configuration of that moment gives the caller's config,
\* whatever they were when the requestor was created or the call began
C15_LateBinding ==
    [][Len(netlog') = Len(netlog) + 1
       => LET e == netlog'[Len(netlog')]
          IN  /\ e.adapter = requestorInstance
              /\ LET fresh == applyGlobalConfig(globalConfig,
                                                MkConfig(GET, rcall'.origUrl))
                 IN  /\ e.config.headers = fresh.headers
                     /\ e.config.timeout = fresh.timeout]_vars

\* the calls on the parallel requestor whose dispatch has not finished
ParOutstanding ==
    {i \in ParIds : preq[i].phase \in {"inflight", "settled", "finally"}}

\* C16: a call on a parallel requestor while nothing is injected rejects
\* with the configuration error and dispatches nothing; once an adapter is
\* injected, a call on the same requestor that finds it idle is dispatched
C16_CallAfterInject ==
    [][pmade' = pmade + 1
       => /\ (useRequestorThrows(requestorInstance)
                /\ ParCanAdmit(<<pmade'>>, runningCount, maxParallelCount))
             => /\ preq'[pmade'].promise = RejectedConfig
                /\ netlog' = netlog
          /\ (/\ ~useRequestorThrows(requestorInstance)
              /\ maxParallelCount >= 1
              /\ queue = <<>>
              /\ ParOutstanding = {})
             => /\ preq'[pmade'].phase = "inflight"
                /\ Len(netlog') = Len(netlog) + 1]_vars

(***************************************************************************)
(* Two cache requestors in one program.                                    *)
(***************************************************************************)
TwoCacheOptionInputs ==
    { Options("undef", UndefNum, "undef", FALSE),
      Options("undef", UndefNum, "undef", TRUE) }

\* createCacheRequestor(o1) and createCacheRequestor(o2)
InitTwoCaches ==
    /\ storageAvailable \in BOOLEAN
    /\ localStorage = EmptyStore
    /\ cinst \in { <<NewInstance(o1), NewInstance(o2)>> :
                     o1 \in TwoCacheOptionInputs, o2 \in TwoCacheOptionInputs }
    /\ ccall = [c \in CacheIds |-> NewCCall]
    /\ cmade = 0

InitTwoCachesSpec ==
    /\ requestorInstance = "fetch"
    /\ globalConfig = InitialGlobalConfig
    /\ now = 0
    /\ netlog = <<>>
    /\ NoPar /\ NoRetry /\ InitTwoCaches

NextTwoCaches ==
    \/ \E i \in CacheInstIds, u \in CacheUrls : CacheMakeRequest(i, u)
    \/ \E c \in CacheIds : CacheAfterHas(c)
    \/ \E c \in CacheIds : CacheAfterGet(c)
    \/ \E c \in CacheIds, ok \in BOOLEAN : CacheTransportSettle(c, ok)

SpecTwoCaches == InitTwoCachesSpec /\ [][NextTwoCaches]_vars

\* C20: a call on one cache requestor is never answered with an entry
\* that a call on another cache requestor stored, with persist false or
\* true
C20_StoresNotShared ==
    \A c \in CacheIds :
        CacheHit(c)
        => \E d \in CacheIds :
              /\ ccall[d].disp = ccall[c].data.n
              /\ ccall[d].inst = ccall[c].inst

(***************************************************************************)
(* Properties of a failed or concurrent dispatch of a cache requestor.     *)
(***************************************************************************)
\* C21: when the dispatch of a cache call fails, the call rejects with the
\* error of that dispatch and no store changes; and a call is answered
\* without a dispatch only if a call with its key was resolved by one, so
\* after failures alone the next call with the key dispatches again
C21_FailureNotMemoized ==
    [][/\ \A c \in CacheIds :
            (ccall[c].pc = "inflight" /\ ccall'[c].promise.st = "rejected")
            => /\ ccall'[c].promise = Rejected(ccall[c].disp)
               /\ cinst' = cinst
               /\ localStorage' = localStorage
       /\ \A d \in CacheIds :
            (/\ ccall'[d].pc \in {"inflight", "done"}
             /\ \A c \in CacheIds \ {d} :
                    ccall'[c].key = ccall'[d].key
                    => ccall'[c].promise.st # "resolved")
            => (ccall'[d].disp # 0 \/ ccall'[d].promise = RejectedConfig)]_vars

C21_Witness ==
    \E c, d \in CacheIds :
        /\ ccall[c].promise = Rejected(1)
        /\ ccall[d].key = ccall[c].key
        /\ ccall[d].at > ccall[c].at
        /\ ~ccall[d].hasKey
        /\ ccall[d].disp = 2

C23_NoAttemptsResolvesUndefined ==
    [][(/\ rcall.pc = "idle" /\ rcall'.pc # "idle"
        /\ maxCount <= 0
        /\ ~useRequestorThrows(requestorInstance))
       => /\ rcall'.pc = "done"
          /\ rcall'.promise = ResolvedUndefined
          /\ netlog' = netlog]_vars

C23_Witness ==
    /\ maxCount < 0
    /\ rcall.pc = "done"
    /\ rcall.promise = ResolvedUndefined
    /\ netlog = <<>>

\* C24: the attempts of one call on a retry requestor never overlap: at
\* most one is in flight, and attempt n+1 is dispatched only after attempt
\* n failed and 1000 * n ms have passed since that failure
C24_AttemptsSequential ==
    [][/\ Len(netlog') - Len(rcall'.outcomes) \in {0, 1}
       /\ (rcall.pc = "inflight" /\ rcall'.pc = "backoff")
          => /\ rcall'.outcomes[Len(rcall'.outcomes)] = FALSE
             /\ rcall'.timer = now + 1000 * Len(rcall'.outcomes)
       /\ (rcall.pc # "idle" /\ Len(netlog') = Len(netlog) + 1)
          => /\ rcall.pc = "backoff"
             /\ Len(rcall.outcomes) = Len(netlog)
             /\ rcall.outcomes[Len(netlog)] = FALSE
             /\ now >= rcall.timer]_vars

\* the third attempt, 1000 ms and then 2000 ms after the failures
C24_Witness ==
    /\ Len(netlog) = 3
    /\ rcall.pc = "inflight"
    /\ rcall.outcomes = <<FALSE, FALSE>>
    /\ now = 3000

\* the last dispatch before this step
PrevAttempt == netlog[Len(netlog)]

\* the caller's config as the global configuration of this state merges it
FreshConfig == applyGlobalConfig(globalConfig, MkConfig(GET, rcall.origUrl))

\* C25: when the adapter or the global configuration was changed between
\* two attempts of a call on a retry requestor, the later attempt goes to
\* the adapter now injected and carries the caller's config merged with
\* the global configuration now stored
C25_RetryRebinds ==
    [][(/\ rcall.pc = "backoff"
        /\ Len(netlog') = Len(netlog) + 1
        /\ \/ PrevAttempt.adapter # requestorInstance
           \/ PrevAttempt.baseURL # globalConfig.baseURL
           \/ PrevAttempt.config.timeout # FreshConfig.timeout)
       => /\ netlog'[Len(netlog')].adapter = requestorInstance
          /\ netlog'[Len(netlog')].config = FreshConfig]_vars

(***************************************************************************)
(* A caller that passes the same config object to a cache requestor again. *)
(***************************************************************************)
\* req.request(config) with the object that finished call c was made with,
\* as that object is now
CacheReuseRequest(c) ==
    /\ cmade < MaxCacheCalls
    /\ ccall[c].pc = "done"
    /\ \A d \in CacheIds : ~(ccall[d].via = "reuse" /\ ccall[d].after = {c})
    /\ cmade' = cmade + 1
    /\ ccall' = [ccall EXCEPT ![cmade + 1] =
                    [CacheStart(cmade + 1, "reuse", ccall[c].inst, cinst,
                                ccall[c].config)
                        EXCEPT !.after = {c}]]
    /\ UNCHANGED <<globalVars, parVars, retryVars, storageAvailable,
                   localStorage, cinst>>

InitReuseSpec ==
    /\ requestorInstance = "fetch"
    /\ globalConfig \in { InitialGlobalConfig,
                          setGlobalConfig(InitialGlobalConfig, [baseURL |-> BaseH]),
                          setGlobalConfig(InitialGlobalConfig, [timeout |-> 5]) }
    /\ now = 0
    /\ netlog = <<>>
    /\ NoPar /\ NoRetry
    /\ storageAvailable = TRUE
    /\ localStorage = EmptyStore
    /\ cinst = <<NewInstance(Options("undef", UndefNum, "undef", FALSE))>>
    /\ ccall = [c \in CacheIds |-> NewCCall]
    /\ cmade = 0

NextReuse ==
    \/ \E i \in CacheInstIds, u \in CacheUrls : CacheMakeRequest(i, u)
    \/ \E c \in CacheIds : CacheReuseRequest(c)
    \/ \E c \in CacheIds : CacheAfterHas(c)
    \/ \E c \in CacheIds : CacheAfterGet(c)
    \/ \E c \in CacheIds, ok \in BOOLEAN : CacheTransportSettle(c, ok)

SpecReuse == InitReuseSpec /\ [][NextReuse]_vars

\* C26: a dispatch leaves the caller's config object as it was, so a second
\* call on a cache requestor with the same object has the key of the first
C26_ConfigNotMutated ==
    \A c, d \in CacheIds :
        (ccall[d].via = "reuse" /\ ccall[d].after = {c})
        => ccall[d].key = ccall[c].key

(***************************************************************************)
(* Further properties of createParallelRequestor.                          *)
(***************************************************************************)
\* C27: runningCount is the number of requests taken from the queue whose
\* dispatch has not yet been finished off by its finally callback, also
\* when a request was taken while nothing was injected
C27_RunningCountExact == runningCount = Cardinality(ParOutstanding)

\* C28: with maxParallelCount >= 1 and an adapter injected, between two
\* handlers a request waits in the queue only while runningCount equals
\* maxParallelCount, and, when no request was taken while nothing was
\* injected, only while that many dispatches are outstanding
C28_WorkConserving ==
    (/\ maxParallelCount >= 1
     /\ ~useRequestorThrows(requestorInstance)
     /\ queue # <<>>)
    => /\ runningCount = maxParallelCount
       /\ (\A i \in ParIds : preq[i].phase # "lost")
          => Cardinality(ParOutstanding) = maxParallelCount

\* a request waits behind a full set of dispatches after a finally
\* callback has already refilled a slot from the queue
C28_Witness ==
    /\ maxParallelCount >= 1
    /\ ~useRequestorThrows(requestorInstance)
    /\ queue # <<>>
    /\ runningCount = maxParallelCount
    /\ Cardinality(ParInFlight) = maxParallelCount
    /\ \E i, j \in ParIds :
          /\ preq[i].phase = "done"
          /\ preq[j].phase = "inflight" /\ preq[j].waited

(***************************************************************************)
(* Further properties of initRequest.                                      *)
(***************************************************************************)
\* C29: initRequest(config) leaves each of baseURL, headers and timeout
\* that config does not have at the value stored before
C29_InitRequestKeepsOmitted ==
    [][\A g \in InitRequestInputs :
          InitRequest(g)
          => /\ g.baseURL = UndefStr
                => globalConfig'.baseURL = globalConfig.baseURL
             /\ g.headers = UndefObj
                => globalConfig'.headers = globalConfig.headers
             /\ g.timeout = UndefNum
                => globalConfig'.timeout = globalConfig.timeout]_vars

====
